---- MODULE Spec2Model ----
(***************************************************************************)
(* State-machine model of ChatApplication (src/App.js): the React state of *)
(* the component, its three effects (auth listener, sessions subscription, *)
(* messages subscription), the Firestore store it writes through, and the  *)
(* asynchronous handlers createNewSession, deleteSession,                  *)
(* handleRenameSubmit, handleTogglePin, handleSubmit and getAnalysis.      *)
(* Every `await` of a handler is a suspension point: the handler's         *)
(* continuation is a separate action that runs with the values its closure *)
(* captured when the handler was called.                                   *)
(***************************************************************************)
EXTENDS Integers, Sequences, FiniteSets, TLC

\* ------------------------------------------------------------------ bounds
MaxSessions == 2
MaxExchanges == 2
MaxRaceExchanges == 3
MaxTitleExchanges == 1
MaxFaults == 2

Users == {"u1", "u2"}
NoUser == "none"
NoId == 0
SessionIds == 1..MaxSessions
ExIds == 1..MaxRaceExchanges

\* ------------------------------------------------------------------ text
\* A text is a sequence of one-character strings.
LowerCs == <<"a","b","c","d","e","f","g","h","i","j","k","l","m",
             "n","o","p","q","r","s","t","u","v","w","x","y","z">>
UpperCs == <<"A","B","C","D","E","F","G","H","I","J","K","L","M",
             "N","O","P","Q","R","S","T","U","V","W","X","Y","Z">>

toUpperCase(c) ==
    IF \E i \in 1..26 : LowerCs[i] = c
    THEN UpperCs[CHOOSE i \in 1..26 : LowerCs[i] = c]
    ELSE c

toLowerCase(c) ==
    IF \E i \in 1..26 : UpperCs[i] = c
    THEN LowerCs[CHOOSE i \in 1..26 : UpperCs[i] = c]
    ELSE c

IsSpace(c) == c \in {" ", "\t", "\n"}

RECURSIVE trimStart(_)
trimStart(s) ==
    IF s # <<>> /\ IsSpace(Head(s)) THEN trimStart(Tail(s)) ELSE s

RECURSIVE trimEnd(_)
trimEnd(s) ==
    IF s # <<>> /\ IsSpace(s[Len(s)]) THEN trimEnd(SubSeq(s, 1, Len(s) - 1)) ELSE s

\* String.prototype.trim
trim(s) == trimEnd(trimStart(s))

\* sentences[0] of cleanInput.split(/[.!?]/): the text before the first terminator
RECURSIVE firstSegment(_)
firstSegment(s) ==
    IF s = <<>> \/ Head(s) \in {".", "!", "?"} THEN <<>>
    ELSE <<Head(s)>> \o firstSegment(Tail(s))

LeadWords == { <<"w","h","a","t">>, <<"w","h","o">>, <<"w","h","e","n">>,
               <<"w","h","e","r","e">>, <<"w","h","y">>, <<"h","o","w">>,
               <<"e","x","p","l","a","i","n">>,
               <<"d","e","s","c","r","i","b","e">>,
               <<"a","n","a","l","y","z","e">>,
               <<"d","i","s","c","u","s","s">> }

StartsWithWord(s, w) ==
    /\ Len(s) > Len(w)
    /\ \A i \in 1..Len(w) : toLowerCase(s[i]) = w[i]
    /\ IsSpace(s[Len(w) + 1])

\* replace(/^(what|who|...)\s+/i, '')
stripLeadWord(s) ==
    IF \E w \in LeadWords : StartsWithWord(s, w)
    THEN LET w == CHOOSE w \in LeadWords : StartsWithWord(s, w)
         IN  trimStart(SubSeq(s, Len(w) + 1, Len(s)))
    ELSE s

\* replace(/\?/g, '')
stripQuestionMarks(s) == SelectSeq(s, LAMBDA c : c # "?")

TitleLimit == 40
TitleCut == 37
NewAnalysis == <<"N","e","w"," ","A","n","a","l","y","s","i","s">>
Ellipsis == <<".", ".", ".">>

capitalize(s) == IF s = <<>> THEN <<>> ELSE <<toUpperCase(Head(s))>> \o Tail(s)

\* generateSessionTitle without the length limit
generateSessionTitleNoCut(userInputText) ==
    IF trim(userInputText) = <<>> THEN NewAnalysis
    ELSE LET cleanInput == trim(userInputText)
             seg == firstSegment(cleanInput)
             firstSentence0 == IF seg = <<>> THEN cleanInput ELSE seg
             firstSentence == stripQuestionMarks(stripLeadWord(firstSentence0))
         IN  capitalize(firstSentence)

generateSessionTitle(userInputText) ==
    IF trim(userInputText) = <<>> THEN NewAnalysis
    ELSE LET cleanInput == trim(userInputText)
             seg == firstSegment(cleanInput)
             firstSentence0 == IF seg = <<>> THEN cleanInput ELSE seg
             firstSentence == stripQuestionMarks(stripLeadWord(firstSentence0))
         IN  IF Len(firstSentence) <= TitleLimit
             THEN capitalize(firstSentence)
             ELSE trim(SubSeq(firstSentence, 1, TitleCut)) \o Ellipsis

\* ------------------------------------------------------------------ state
VARIABLES
    user,              \* useState: the bound identity, NoUser when none
    sessions,          \* useState: the locally held session list (last snapshot)
    currentSessionId,  \* useState: the selected session, NoId when none
    messages,          \* useState: the locally held message list (last snapshot)
    userInput,         \* useState: the text of the input field
    isLoading,         \* useState: the loading flag
    error,             \* useState: the transient error status
    activeOptions,     \* useState: the session whose options menu is open, NoId when none
    sessEff,           \* [user] the sessions effect last ran with: its subscription's scope
    msgEff,            \* [currentSessionId, user] the messages effect last ran with
    sessionsDB,        \* store: session id -> session document, NoSession when absent
    messagesDB,        \* store: <<uid, session id>> -> the messages collection at that path
    nextId,            \* store: the next session id addDoc assigns
    pendNew,           \* createNewSession calls awaiting addDoc, per captured user
    pendDel,           \* deleteSession calls awaiting deleteDoc: <<captured user, id>>
    ex,                \* exchanges: handleSubmit/getAnalysis calls and where each is suspended
    nEx,               \* number of exchanges started so far
    faults             \* number of rejected writes, failed calls and subscription errors so far

vars == <<user, sessions, currentSessionId, messages, userInput, isLoading, error, activeOptions,
          sessEff, msgEff, sessionsDB, messagesDB, nextId, pendNew, pendDel, ex, nEx, faults>>

reactVars == <<user, sessions, currentSessionId, messages, userInput, isLoading, error,
               activeOptions>>
effVars == <<sessEff, msgEff>>
storeVars == <<sessionsDB, messagesDB, nextId>>

NoSession == [owner |-> NoUser, title |-> <<>>, isPinned |-> FALSE]

\* transient error strings
NoError == <<>>
ErrLoadSessions == <<"Failed to load chat sessions">>
ErrLoadMessages == <<"Failed to load messages for this session.">>
ErrCreate == <<"Failed to create new chat session">>
ErrDelete == <<"Failed to delete chat session">>
ErrRename == <<"Failed to rename chat session">>
ErrPin == <<"Failed to update chat session">>
SorryPrefix == <<"Sorry, the analysis failed: ">>

\* err.message of a rejected store write
StoreErrMsg == <<"store write rejected">>

\* what the /analyze call can come back with
Details == { <<"rate limited">>, <<>> }
RemoteOutcomes ==
    { [kind |-> "ok", detail |-> <<>>], [kind |-> "transport", detail |-> <<>>] }
    \cup { [kind |-> "http", detail |-> d] : d \in Details }

\* RemoteErrMsg with the detail of the response dropped
RemoteErrMsgNoDetail(outcome) ==
    IF outcome.kind = "transport" THEN <<"Failed to fetch">>
    ELSE <<"An API error occurred: ", "status">>

\* err.message of a failed remote call: errorData.detail || `An API error occurred: ...`
RemoteErrMsg(outcome) ==
    IF outcome.kind = "transport" THEN <<"Failed to fetch">>
    ELSE IF outcome.detail # <<>> THEN outcome.detail
    ELSE <<"An API error occurred: ", "status">>

\* removeMarkdown(data.answer)
CleanAnswer == <<"answer">>

\* texts the user types into the input field
TxtBlank == <<" ", " ">>
TxtQuestion == <<"W","h","y"," ","w","a","r","?">>
TxtMark == <<"?">>

\* long texts: n times the character c
Rep(c, n) == [i \in 1..n |-> c]
\* 60 characters, no terminator and no space
TxtLong == Rep("a", 60)
\* 60 characters with a space as the 37th
TxtLongGap == Rep("a", 36) \o <<" ">> \o Rep("b", 23)
\* a lead word, 50 characters and a question mark
TxtLongLead == <<"W", "h", "y", " ">> \o Rep("c", 50) \o <<"?">>
\* a lead word, 38 characters and a question mark
TxtShortLead == <<"W", "h", "y", " ">> \o Rep("d", 38) \o <<"?">>
LongTexts == { TxtLong, TxtLongGap, TxtLongLead, TxtShortLead }

Texts == { TxtBlank, TxtQuestion, TxtMark } \cup LongTexts

\* generateSessionTitle of every text that can be submitted, computed once
TitleOf == [t \in Texts |-> generateSessionTitle(t)]

\* texts the user types into the rename field
RenameTitles == { <<" ">>, <<" ", "X", " ">> }

IdleEx == [pc |-> "idle", user |-> NoUser, sid |-> NoId, text |-> <<>>,
           isNew |-> FALSE, hist |-> <<>>, errMsg |-> <<>>]
DoneEx == [IdleEx EXCEPT !.pc = "done"]

InFlightPcs == {"userWrite", "remote", "botWrite", "title", "errWrite"}

\* ------------------------------------------------------------------ store
DocExists(u, sid) ==
    /\ sid \in SessionIds
    /\ sessionsDB[sid] # NoSession
    /\ sessionsDB[sid].owner = u

\* snapshot.docs.map(...) of query(users/u/sessions, orderBy('createdAt','desc'))
RECURSIVE SessionsFrom(_, _)
SessionsFrom(u, id) ==
    IF id = 0 THEN <<>>
    ELSE (IF DocExists(u, id)
          THEN << [id |-> id, title |-> sessionsDB[id].title,
                   isPinned |-> sessionsDB[id].isPinned, createdAt |-> id] >>
          ELSE <<>>) \o SessionsFrom(u, id - 1)

SessionsOf(u) == SessionsFrom(u, MaxSessions)

LocalIds == { sessions[i].id : i \in 1..Len(sessions) }

\* (createdAt?.toMillis() || 0): the time of a resolved timestamp, 0 while the
\* server timestamp of the document is still pending (createdAt is null)
Millis(session) == session.createdAt

\* compareSessions that orders by creation time only
compareByTimeOnly(a, b) == Millis(b) - Millis(a)

\* the comparator of sortedSessions (lines 464-466): negative when a goes first
compareSessions(a, b) ==
    IF a.isPinned /\ ~b.isPinned THEN -1
    ELSE IF ~a.isPinned /\ b.isPinned THEN 1
    ELSE Millis(b) - Millis(a)

\* Array.prototype.sort is stable: an element goes before the first one that the
\* comparator places after it, and after everything else already placed
RECURSIVE insertSorted(_, _)
insertSorted(x, placed) ==
    IF placed = <<>> THEN <<x>>
    ELSE IF compareSessions(x, Head(placed)) < 0 THEN <<x>> \o placed
    ELSE <<Head(placed)>> \o insertSorted(x, Tail(placed))

RECURSIVE sortFrom(_, _)
sortFrom(rest, placed) ==
    IF rest = <<>> THEN placed
    ELSE sortFrom(Tail(rest), insertSorted(Head(rest), placed))

\* [...list].sort(comparator) (line 463)
sortSessions(list) == sortFrom(list, <<>>)

\* the list the sidebar renders (lines 463-467, 493)
sortedSessions == sortSessions(sessions)

Message(sender, text, sid, e) == [sender |-> sender, text |-> text, sid |-> sid, ex |-> e]

Init ==
    /\ user = NoUser
    /\ sessions = <<>>
    /\ currentSessionId = NoId
    /\ messages = <<>>
    /\ userInput = <<>>
    /\ isLoading = FALSE
    /\ error = NoError
    /\ activeOptions = NoId
    /\ sessEff = NoUser
    /\ msgEff = <<NoId, NoUser>>
    /\ sessionsDB = [i \in SessionIds |-> NoSession]
    /\ messagesDB = [p \in Users \X SessionIds |-> <<>>]
    /\ nextId = 1
    /\ pendNew = [u \in Users |-> 0]
    /\ pendDel = {}
    /\ ex = [e \in ExIds |-> IdleEx]
    /\ nEx = 0
    /\ faults = 0

\* a write, call or subscription that answers ok or fails; failures are counted
Fault(ok) ==
    IF ok THEN UNCHANGED faults
    ELSE faults < MaxFaults /\ faults' = faults + 1

\* session-creation writes issued and not yet answered
PendingCreates ==
    pendNew["u1"] + pendNew["u2"] + Cardinality({ e \in ExIds : ex[e].pc = "create" })

CanCreate == nextId + PendingCreates <= MaxSessions

\* ------------------------------------------------------------------ effects
\* onAuthStateChanged callback (lines 217-223)
AuthStateChanged(u) ==
    /\ u # user
    /\ user' = u
    /\ currentSessionId' = NoId
    /\ messages' = <<>>
    /\ UNCHANGED <<sessions, userInput, isLoading, error, effVars, storeVars,
                   pendNew, pendDel, activeOptions, ex, nEx, faults>>

\* The passive effects of a render whose dependencies changed (lines 236-274):
\* each cleans up its previous subscription and runs its body with the render's
\* user and currentSessionId.
RunEffects ==
    LET runSess == user # sessEff
        runMsg == <<currentSessionId, user>> # msgEff
    IN  /\ runSess \/ runMsg
        /\ sessEff' = user
        /\ msgEff' = <<currentSessionId, user>>
        /\ sessions' = IF runSess /\ user = NoUser THEN <<>> ELSE sessions
        /\ currentSessionId' = IF runSess /\ user = NoUser THEN NoId ELSE currentSessionId
        /\ messages' = IF runMsg /\ (currentSessionId = NoId \/ user = NoUser)
                       THEN <<>> ELSE messages
        /\ UNCHANGED <<user, userInput, isLoading, error, storeVars,
                       pendNew, pendDel, activeOptions, ex, nEx, faults>>

\* sessions onSnapshot callback (lines 244-246)
SessionsSnapshot ==
    /\ sessEff # NoUser
    /\ sessions' = SessionsOf(sessEff)
    /\ UNCHANGED <<user, currentSessionId, messages, userInput, isLoading, error,
                   effVars, storeVars, pendNew, pendDel, activeOptions, ex, nEx, faults>>

\* sessions onSnapshot error callback (lines 247-250)
SessionsSubError ==
    /\ sessEff # NoUser
    /\ error' = ErrLoadSessions
    /\ UNCHANGED <<user, sessions, currentSessionId, messages, userInput, isLoading,
                   effVars, storeVars, pendNew, pendDel, activeOptions, ex, nEx>>
    /\ Fault(FALSE)

MsgSubActive == msgEff[1] # NoId /\ msgEff[2] # NoUser

\* messages onSnapshot callback (lines 265-267)
MessagesSnapshot ==
    /\ MsgSubActive
    /\ messages' = messagesDB[<<msgEff[2], msgEff[1]>>]
    /\ UNCHANGED <<user, sessions, currentSessionId, userInput, isLoading, error,
                   effVars, storeVars, pendNew, pendDel, activeOptions, ex, nEx, faults>>

\* MessagesSubError that empties the message list
MessagesSubErrorClears ==
    /\ MsgSubActive
    /\ error' = ErrLoadMessages
    /\ messages' = <<>>
    /\ UNCHANGED <<user, sessions, currentSessionId, userInput, isLoading,
                   effVars, storeVars, pendNew, pendDel, activeOptions, ex, nEx>>
    /\ Fault(FALSE)

\* messages onSnapshot error callback (lines 268-271)
MessagesSubError ==
    /\ MsgSubActive
    /\ error' = ErrLoadMessages
    /\ UNCHANGED <<user, sessions, currentSessionId, messages, userInput, isLoading,
                   effVars, storeVars, pendNew, pendDel, activeOptions, ex, nEx>>
    /\ Fault(FALSE)

\* ------------------------------------------------------------------ session lifecycle
\* The handlers below are called from user events on the rendered page. React
\* flushes the pending passive effects of the last render before it handles a
\* user event, so a handler runs with the subscriptions of the state it sees;
\* store callbacks and the continuations of awaits can run before that flush.
EffectsSettled == sessEff = user /\ msgEff = <<currentSessionId, user>>

\* onChange of the input field (line 594); the field is disabled while loading
TypeInput(t) ==
    /\ user # NoUser
    /\ EffectsSettled
    /\ ~isLoading
    /\ userInput' = t
    /\ error' = NoError
    /\ UNCHANGED <<user, sessions, currentSessionId, messages, isLoading,
                   effVars, storeVars, pendNew, pendDel, activeOptions, ex, nEx, faults>>

\* session-item onClick (line 494)
SelectSession(sid) ==
    /\ user # NoUser
    /\ EffectsSettled
    /\ sid \in LocalIds
    /\ currentSessionId' = sid
    /\ UNCHANGED <<user, sessions, messages, userInput, isLoading, error,
                   effVars, storeVars, pendNew, pendDel, activeOptions, ex, nEx, faults>>

\* createNewSession up to its await (lines 289-297)
CreateNewSession ==
    /\ user # NoUser
    /\ EffectsSettled
    /\ CanCreate
    /\ pendNew' = [pendNew EXCEPT ![user] = @ + 1]
    /\ UNCHANGED <<reactVars, effVars, storeVars, pendDel, ex, nEx, faults>>

\* CreateNewSessionDone that leaves the message view as it is
CreateNewSessionDoneNoClear(u, ok) ==
    /\ pendNew[u] > 0
    /\ pendNew' = [pendNew EXCEPT ![u] = @ - 1]
    /\ IF ok
       THEN /\ sessionsDB' = [sessionsDB EXCEPT ![nextId] =
                                [owner |-> u, title |-> NewAnalysis, isPinned |-> FALSE]]
            /\ nextId' = nextId + 1
            /\ currentSessionId' = nextId
            /\ userInput' = <<>>
            /\ error' = NoError
            /\ UNCHANGED messages
       ELSE /\ error' = ErrCreate
            /\ UNCHANGED <<sessionsDB, nextId, currentSessionId, messages, userInput>>
    /\ UNCHANGED <<user, sessions, isLoading, effVars, messagesDB, pendDel, activeOptions, ex, nEx>>
    /\ Fault(ok)

\* createNewSession after its await (lines 293-306), u the user it captured
CreateNewSessionDone(u, ok) ==
    /\ pendNew[u] > 0
    /\ pendNew' = [pendNew EXCEPT ![u] = @ - 1]
    /\ IF ok
       THEN /\ sessionsDB' = [sessionsDB EXCEPT ![nextId] =
                                [owner |-> u, title |-> NewAnalysis, isPinned |-> FALSE]]
            /\ nextId' = nextId + 1
            /\ currentSessionId' = nextId
            /\ messages' = <<>>
            /\ userInput' = <<>>
            /\ error' = NoError
       ELSE /\ error' = ErrCreate
            /\ UNCHANGED <<sessionsDB, nextId, currentSessionId, messages, userInput>>
    /\ UNCHANGED <<user, sessions, isLoading, effVars, messagesDB, pendDel, activeOptions, ex, nEx>>
    /\ Fault(ok)

\* DeleteSession without the reset of the selection and the message view
DeleteSessionNoClear(sid) ==
    /\ user # NoUser
    /\ EffectsSettled
    /\ sid \in LocalIds
    /\ activeOptions = sid
    /\ pendDel' = pendDel \cup {<<user, sid>>}
    /\ UNCHANGED <<user, sessions, currentSessionId, messages, userInput, isLoading, error,
                   activeOptions, effVars, storeVars, pendNew, ex, nEx, faults>>

\* deleteSession up to its await (lines 309-317), called from the open options
\* menu of the session
DeleteSession(sid) ==
    /\ user # NoUser
    /\ EffectsSettled
    /\ sid \in LocalIds
    /\ activeOptions = sid
    /\ IF currentSessionId = sid
       THEN currentSessionId' = NoId /\ messages' = <<>>
       ELSE UNCHANGED <<currentSessionId, messages>>
    /\ pendDel' = pendDel \cup {<<user, sid>>}
    /\ UNCHANGED <<user, sessions, userInput, isLoading, error,
                   activeOptions, effVars, storeVars, pendNew, ex, nEx, faults>>

\* deleteSession after its await (lines 317-322): the menu is closed either way
DeleteSessionDone(p, ok) ==
    /\ p \in pendDel
    /\ pendDel' = pendDel \ {p}
    /\ activeOptions' = NoId
    /\ IF ok
       THEN /\ sessionsDB' = IF DocExists(p[1], p[2])
                             THEN [sessionsDB EXCEPT ![p[2]] = NoSession]
                             ELSE sessionsDB
            /\ UNCHANGED error
       ELSE /\ error' = ErrDelete
            /\ UNCHANGED sessionsDB
    /\ UNCHANGED <<user, sessions, currentSessionId, messages, userInput, isLoading,
                   effVars, messagesDB, nextId, pendNew, ex, nEx>>
    /\ Fault(ok)

\* HandleRenameSubmit that tests and writes the title as typed
HandleRenameSubmitNoTrim(sid, t, ok) ==
    /\ user # NoUser
    /\ EffectsSettled
    /\ sid \in LocalIds
    /\ t = <<>> => ok
    /\ IF t = <<>>
       THEN UNCHANGED <<sessionsDB, error>>
       ELSE IF ok /\ DocExists(user, sid)
            THEN /\ sessionsDB' = [sessionsDB EXCEPT ![sid].title = t]
                 /\ UNCHANGED error
            ELSE /\ error' = ErrRename
                 /\ UNCHANGED sessionsDB
    /\ UNCHANGED <<user, sessions, currentSessionId, messages, userInput, isLoading,
                   effVars, messagesDB, nextId, pendNew, pendDel, activeOptions, ex, nEx>>
    /\ Fault(ok)

\* handleRenameSubmit (lines 331-346) with newSessionTitle = t; updateDoc rejects
\* when the document does not exist
HandleRenameSubmit(sid, t, ok) ==
    /\ user # NoUser
    /\ EffectsSettled
    /\ sid \in LocalIds
    /\ trim(t) = <<>> => ok
    /\ IF trim(t) = <<>>
       THEN UNCHANGED <<sessionsDB, error>>
       ELSE IF ok /\ DocExists(user, sid)
            THEN /\ sessionsDB' = [sessionsDB EXCEPT ![sid].title = trim(t)]
                 /\ UNCHANGED error
            ELSE /\ error' = ErrRename
                 /\ UNCHANGED sessionsDB
    /\ UNCHANGED <<user, sessions, currentSessionId, messages, userInput, isLoading,
                   effVars, messagesDB, nextId, pendNew, pendDel, activeOptions, ex, nEx>>
    /\ Fault(ok)

\* the options button of a session item (line 511): opens its menu, or closes it
SetActiveOptions(sid) ==
    /\ user # NoUser
    /\ EffectsSettled
    /\ sid \in LocalIds
    /\ activeOptions' = IF activeOptions = sid THEN NoId ELSE sid
    /\ UNCHANGED <<user, sessions, currentSessionId, messages, userInput, isLoading, error,
                   effVars, storeVars, pendNew, pendDel, ex, nEx, faults>>

\* HandleTogglePin that writes the negation of the flag the store holds
HandleTogglePinStored(i, ok) ==
    /\ user # NoUser
    /\ EffectsSettled
    /\ i \in 1..Len(sortedSessions)
    /\ activeOptions = sortedSessions[i].id
    /\ LET session == sortedSessions[i]
       IN  IF ok /\ DocExists(user, session.id)
           THEN /\ sessionsDB' = [sessionsDB EXCEPT ![session.id].isPinned = ~@]
                /\ activeOptions' = NoId
                /\ UNCHANGED error
           ELSE /\ error' = ErrPin
                /\ UNCHANGED <<sessionsDB, activeOptions>>
    /\ UNCHANGED <<user, sessions, currentSessionId, messages, userInput, isLoading,
                   effVars, messagesDB, nextId, pendNew, pendDel, ex, nEx>>
    /\ Fault(ok)

\* handleTogglePin (lines 348-358), session the entry of the rendered list whose
\* options menu is open; the menu is closed when the write is accepted
HandleTogglePin(i, ok) ==
    /\ user # NoUser
    /\ EffectsSettled
    /\ i \in 1..Len(sortedSessions)
    /\ activeOptions = sortedSessions[i].id
    /\ LET session == sortedSessions[i]
       IN  IF ok /\ DocExists(user, session.id)
           THEN /\ sessionsDB' = [sessionsDB EXCEPT ![session.id].isPinned = ~session.isPinned]
                /\ activeOptions' = NoId
                /\ UNCHANGED error
           ELSE /\ error' = ErrPin
                /\ UNCHANGED <<sessionsDB, activeOptions>>
    /\ UNCHANGED <<user, sessions, currentSessionId, messages, userInput, isLoading,
                   effVars, messagesDB, nextId, pendNew, pendDel, ex, nEx>>
    /\ Fault(ok)

\* ------------------------------------------------------------------ exchange
\* SubmitRejected without the trim
SubmitRejectedNoTrim == userInput = <<>> \/ isLoading

\* the guard of handleSubmit (line 430)
SubmitRejected == trim(userInput) = <<>> \/ isLoading

\* getAnalysis up to its first await (lines 366-374), called for exchange e
StartAnalysis(e, u, sid, isNew, hist) ==
    /\ isLoading' = TRUE
    /\ error' = NoError
    /\ ex' = [ex EXCEPT ![e] = [pc |-> "userWrite", user |-> u, sid |-> sid,
                                text |-> userInput, isNew |-> isNew,
                                hist |-> hist, errMsg |-> <<>>]]

\* handleSubmit up to its first await (lines 428-455)
HandleSubmit(maxEx) ==
    /\ user # NoUser
    /\ EffectsSettled
    /\ IF SubmitRejected
       THEN UNCHANGED vars
       ELSE /\ nEx < maxEx
            /\ nEx' = nEx + 1
            /\ IF currentSessionId = NoId
               THEN /\ CanCreate
                    /\ ex' = [ex EXCEPT ![nEx + 1] =
                                [pc |-> "create", user |-> user, sid |-> NoId,
                                 text |-> userInput, isNew |-> TRUE,
                                 hist |-> messages, errMsg |-> <<>>]]
                    /\ UNCHANGED <<isLoading, error, userInput>>
               ELSE /\ StartAnalysis(nEx + 1, user, currentSessionId, FALSE, messages)
                    /\ userInput' = <<>>
            /\ UNCHANGED <<user, sessions, currentSessionId, messages,
                           effVars, storeVars, pendNew, pendDel, activeOptions, faults>>

\* SubmitCreateDone that calls getAnalysis although the session-creation write
\* failed, with the id the session would have had
SubmitCreateDoneNoReturn(e, ok) ==
    /\ ex[e].pc = "create"
    /\ IF ok
       THEN /\ sessionsDB' = [sessionsDB EXCEPT ![nextId] =
                                [owner |-> ex[e].user,
                                 title |-> TitleOf[ex[e].text],
                                 isPinned |-> FALSE]]
            /\ nextId' = nextId + 1
            /\ currentSessionId' = nextId
       ELSE UNCHANGED <<sessionsDB, nextId, currentSessionId>>
    /\ isLoading' = TRUE
    /\ error' = NoError
    /\ ex' = [ex EXCEPT ![e].pc = "userWrite", ![e].sid = nextId]
    /\ userInput' = <<>>
    /\ UNCHANGED <<user, sessions, messages, effVars, messagesDB, pendNew, pendDel, activeOptions, nEx>>
    /\ Fault(ok)

\* handleSubmit after the await of its session-creation write (lines 439-454)
SubmitCreateDone(e, ok) ==
    /\ ex[e].pc = "create"
    /\ IF ok
       THEN /\ sessionsDB' = [sessionsDB EXCEPT ![nextId] =
                                [owner |-> ex[e].user,
                                 title |-> TitleOf[ex[e].text],
                                 isPinned |-> FALSE]]
            /\ nextId' = nextId + 1
            /\ currentSessionId' = nextId
            /\ isLoading' = TRUE
            /\ error' = NoError
            /\ ex' = [ex EXCEPT ![e].pc = "userWrite", ![e].sid = nextId]
            /\ userInput' = <<>>
       ELSE /\ error' = ErrCreate
            /\ ex' = [ex EXCEPT ![e] = DoneEx]
            /\ UNCHANGED <<sessionsDB, nextId, currentSessionId, isLoading, userInput>>
    /\ UNCHANGED <<user, sessions, messages, effVars, messagesDB, pendNew, pendDel, activeOptions, nEx>>
    /\ Fault(ok)

\* the catch block up to its await (lines 412-419)
Catch(e, message) ==
    /\ error' = SorryPrefix \o message
    /\ ex' = [ex EXCEPT ![e].pc = "errWrite", ![e].errMsg = SorryPrefix \o message]
    /\ UNCHANGED isLoading

\* the finally block (lines 423-425)
Finally(e) ==
    /\ isLoading' = FALSE
    /\ ex' = [ex EXCEPT ![e] = DoneEx]

\* addDoc on the messages collection of exchange e; the store notifies the live
\* messages listener when the write is on the collection it listens to
AppendMessage(e, sender, text) ==
    /\ messagesDB' = [messagesDB EXCEPT ![<<ex[e].user, ex[e].sid>>] =
                        Append(@, Message(sender, text, ex[e].sid, e))]
    /\ messages' = IF MsgSubActive /\ <<msgEff[2], msgEff[1]>> = <<ex[e].user, ex[e].sid>>
                   THEN messagesDB'[<<ex[e].user, ex[e].sid>>]
                   ELSE messages

\* UserWriteDone with the write not awaited: the request goes out whether or not
\* the user turn was stored
UserWriteNotAwaited(e, ok) ==
    /\ ex[e].pc = "userWrite"
    /\ IF ok
       THEN AppendMessage(e, "user", ex[e].text)
       ELSE UNCHANGED <<messagesDB, messages>>
    /\ ex' = [ex EXCEPT ![e].pc = "remote"]
    /\ UNCHANGED <<isLoading, error>>
    /\ UNCHANGED <<user, sessions, currentSessionId, userInput,
                   effVars, sessionsDB, nextId, pendNew, pendDel, activeOptions, nEx>>
    /\ Fault(ok)

\* getAnalysis after the await of the user-turn write (lines 372-389)
UserWriteDone(e, ok) ==
    /\ ex[e].pc = "userWrite"
    /\ IF ok
       THEN /\ AppendMessage(e, "user", ex[e].text)
            /\ ex' = [ex EXCEPT ![e].pc = "remote"]
            /\ UNCHANGED <<isLoading, error>>
       ELSE /\ Catch(e, StoreErrMsg)
            /\ UNCHANGED <<messagesDB, messages>>
    /\ UNCHANGED <<user, sessions, currentSessionId, userInput,
                   effVars, sessionsDB, nextId, pendNew, pendDel, activeOptions, nEx>>
    /\ Fault(ok)

\* getAnalysis after the await of fetch (lines 382-406)
RemoteDone(e, outcome) ==
    /\ ex[e].pc = "remote"
    /\ IF outcome.kind = "ok"
       THEN /\ ex' = [ex EXCEPT ![e].pc = "botWrite"]
            /\ UNCHANGED <<isLoading, error>>
       ELSE Catch(e, RemoteErrMsg(outcome))
    /\ UNCHANGED <<user, sessions, currentSessionId, messages, userInput,
                   effVars, storeVars, pendNew, pendDel, activeOptions, nEx>>
    /\ Fault(outcome.kind = "ok")

\* the condition of the retitle step (line 408)
ShouldRetitle(e) == ex[e].isNew \/ Len(ex[e].hist) = 0

\* getAnalysis after the await of the assistant-turn write (lines 401-411)
BotWriteDone(e, ok) ==
    /\ ex[e].pc = "botWrite"
    /\ IF ok
       THEN /\ AppendMessage(e, "bot", CleanAnswer)
            /\ IF ShouldRetitle(e)
               THEN /\ ex' = [ex EXCEPT ![e].pc = "title"]
                    /\ UNCHANGED isLoading
               ELSE Finally(e)
            /\ UNCHANGED error
       ELSE /\ Catch(e, StoreErrMsg)
            /\ UNCHANGED <<messagesDB, messages>>
    /\ UNCHANGED <<user, sessions, currentSessionId, userInput,
                   effVars, sessionsDB, nextId, pendNew, pendDel, activeOptions, nEx>>
    /\ Fault(ok)

\* getAnalysis after the await of the title update (lines 409-411)
TitleDone(e, ok) ==
    /\ ex[e].pc = "title"
    /\ IF ok /\ DocExists(ex[e].user, ex[e].sid)
       THEN /\ sessionsDB' = [sessionsDB EXCEPT ![ex[e].sid].title =
                                TitleOf[ex[e].text]]
            /\ Finally(e)
            /\ UNCHANGED error
       ELSE /\ Catch(e, StoreErrMsg)
            /\ UNCHANGED sessionsDB
    /\ UNCHANGED <<user, sessions, currentSessionId, messages, userInput,
                   effVars, messagesDB, nextId, pendNew, pendDel, activeOptions, nEx>>
    /\ Fault(ok)

\* ErrWriteDone with the loading flag released at the end of the try block
\* instead of in a finally block
ErrWriteDoneNoRelease(e, ok) ==
    /\ ex[e].pc = "errWrite"
    /\ IF ok
       THEN AppendMessage(e, "bot", ex[e].errMsg)
       ELSE UNCHANGED <<messagesDB, messages>>
    /\ ex' = [ex EXCEPT ![e] = DoneEx]
    /\ UNCHANGED <<user, sessions, currentSessionId, userInput, error, isLoading,
                   effVars, sessionsDB, nextId, pendNew, pendDel, activeOptions, nEx>>
    /\ Fault(ok)

\* ErrWriteDone that issues the failure-turn write again when it is rejected
ErrWriteDoneRetry(e, ok) ==
    /\ ex[e].pc = "errWrite"
    /\ IF ok
       THEN AppendMessage(e, "bot", ex[e].errMsg) /\ Finally(e)
       ELSE UNCHANGED <<messagesDB, messages, isLoading, ex>>
    /\ UNCHANGED <<user, sessions, currentSessionId, userInput, error,
                   effVars, sessionsDB, nextId, pendNew, pendDel, activeOptions, nEx>>
    /\ Fault(ok)

\* getAnalysis after the await of the failure-turn write (lines 416-425)
ErrWriteDone(e, ok) ==
    /\ ex[e].pc = "errWrite"
    /\ IF ok
       THEN AppendMessage(e, "bot", ex[e].errMsg)
       ELSE UNCHANGED <<messagesDB, messages>>
    /\ Finally(e)
    /\ UNCHANGED <<user, sessions, currentSessionId, userInput, error,
                   effVars, sessionsDB, nextId, pendNew, pendDel, activeOptions, nEx>>
    /\ Fault(ok)

\* ------------------------------------------------------------------ specifications
Ok == [kind |-> "ok", detail |-> <<>>]

\* a continuation of exchange e, every answer of the store and the remote service
ExchangeStep(e) ==
    \/ \E ok \in BOOLEAN : SubmitCreateDone(e, ok)
    \/ \E ok \in BOOLEAN : UserWriteDone(e, ok)
    \/ \E outcome \in RemoteOutcomes : RemoteDone(e, outcome)
    \/ \E ok \in BOOLEAN : BotWriteDone(e, ok)
    \/ \E ok \in BOOLEAN : TitleDone(e, ok)
    \/ \E ok \in BOOLEAN : ErrWriteDone(e, ok)

\* the subscriptions and effects every specification runs
Sync ==
    \/ RunEffects
    \/ SessionsSnapshot
    \/ MessagesSnapshot

\* One identity signing in and out, explicit and implicit session creation,
\* session selection and up to MaxExchanges exchanges with every failure branch.
Next ==
    \/ \E u \in {"u1", NoUser} : AuthStateChanged(u)
    \/ Sync
    \/ \E t \in {TxtBlank, TxtQuestion} : TypeInput(t)
    \/ \E sid \in SessionIds : SelectSession(sid)
    \/ CreateNewSession
    \/ \E ok \in BOOLEAN : CreateNewSessionDone("u1", ok)
    \/ HandleSubmit(MaxExchanges)
    \/ \E e \in ExIds : ExchangeStep(e)

Spec == Init /\ [][Next]_vars

\* One identity that stays signed in and submits up to MaxRaceExchanges times,
\* also while an implicit session creation is pending.
SignIn == user = NoUser /\ AuthStateChanged("u1")

NextRace ==
    \/ SignIn
    \/ Sync
    \/ TypeInput(TxtQuestion)
    \/ HandleSubmit(MaxRaceExchanges)
    \/ \E e \in ExIds : ExchangeStep(e)

SpecRace == Init /\ [][NextRace]_vars

\* One identity that stays signed in and every operation that writes a session
\* title: explicit creation, rename, and up to MaxTitleExchanges exchanges (implicit
\* creation and retitle) whose text may be a bare question mark.
NextTitle ==
    \/ SignIn
    \/ Sync
    \/ \E t \in {TxtQuestion, TxtMark} : TypeInput(t)
    \/ \E sid \in SessionIds : SelectSession(sid)
    \/ CreateNewSession
    \/ \E ok \in BOOLEAN : CreateNewSessionDone("u1", ok)
    \/ \E sid \in SessionIds, t \in RenameTitles, ok \in BOOLEAN : HandleRenameSubmit(sid, t, ok)
    \/ HandleSubmit(MaxTitleExchanges)
    \/ \E e \in ExIds : ExchangeStep(e)

SpecTitle == Init /\ [][NextTitle]_vars

\* The exchanges alone, under the assumption that every store write and every
\* remote call eventually returns.
NextFair ==
    \/ SignIn
    \/ Sync
    \/ TypeInput(TxtQuestion)
    \/ HandleSubmit(MaxExchanges)
    \/ \E e \in ExIds : ExchangeStep(e)

SpecFair ==
    Init /\ [][NextFair]_vars /\ \A e \in 1..MaxExchanges : WF_vars(ExchangeStep(e))

\* One identity that stays signed in and the session lifecycle: explicit creation,
\* selection and deletion, with up to MaxTitleExchanges exchanges to fill
\* the message view.
NextLife ==
    \/ SignIn
    \/ Sync
    \/ TypeInput(TxtQuestion)
    \/ \E sid \in SessionIds : SelectSession(sid)
    \/ CreateNewSession
    \/ \E ok \in BOOLEAN : CreateNewSessionDone("u1", ok)
    \/ \E sid \in SessionIds : SetActiveOptions(sid)
    \/ \E sid \in SessionIds : DeleteSession(sid)
    \/ \E p \in Users \X SessionIds, ok \in BOOLEAN : DeleteSessionDone(p, ok)
    \/ HandleSubmit(MaxTitleExchanges)
    \/ \E e \in ExIds : ExchangeStep(e)

SpecLife == Init /\ [][NextLife]_vars

\* The ordering policy on every session list a sessions snapshot can deliver to
\* a signed-in identity: any subset of the session ids, pinned or not, the
\* documents whose server timestamp is still pending first (createdAt null), the
\* others by creation time, latest first. Pinning then changes the flags.
SnapshotWith(ids, pinned, pending) ==
    LET entry(id) == [id |-> id, title |-> NewAnalysis, isPinned |-> pinned[id],
                      createdAt |-> IF id \in pending THEN 0 ELSE id]
        RECURSIVE from(_, _)
        from(id, which) ==
            IF id = 0 THEN <<>>
            ELSE (IF id \in which THEN <<entry(id)>> ELSE <<>>) \o from(id - 1, which)
    IN  from(MaxSessions, ids \cap pending) \o from(MaxSessions, ids \ pending)

InitSort ==
    /\ user = "u1"
    /\ currentSessionId = NoId
    /\ messages = <<>>
    /\ userInput = <<>>
    /\ isLoading = FALSE
    /\ error = NoError
    /\ activeOptions = NoId
    /\ sessEff = "u1"
    /\ msgEff = <<NoId, "u1">>
    /\ \E ids \in SUBSET SessionIds : \E pending \in SUBSET ids :
       \E pinned \in [SessionIds -> BOOLEAN] :
          /\ \A id \in SessionIds \ ids : ~pinned[id]
          /\ sessionsDB = [id \in SessionIds |->
                             IF id \in ids
                             THEN [owner |-> "u1", title |-> NewAnalysis,
                                   isPinned |-> pinned[id]]
                             ELSE NoSession]
          /\ sessions = SnapshotWith(ids, pinned, pending)
    /\ messagesDB = [p \in Users \X SessionIds |-> <<>>]
    /\ nextId = MaxSessions + 1
    /\ pendNew = [u \in Users |-> 0]
    /\ pendDel = {}
    /\ ex = [e \in ExIds |-> IdleEx]
    /\ nEx = 0
    /\ faults = 0

NextSort ==
    \/ SessionsSnapshot
    \/ \E sid \in SessionIds : SetActiveOptions(sid)
    \/ \E i \in 1..MaxSessions, ok \in BOOLEAN : HandleTogglePin(i, ok)

SpecSort == InitSort /\ [][NextSort]_vars

\* One identity that stays signed in and submits a long text with no session
\* selected: the implicit creation and the retitle step write its title.
NextLong ==
    \/ SignIn
    \/ Sync
    \/ \E t \in LongTexts : TypeInput(t)
    \/ HandleSubmit(MaxTitleExchanges)
    \/ \E e \in ExIds : ExchangeStep(e)

SpecLong == Init /\ [][NextLong]_vars

\* One identity that stays signed in, up to MaxTitleExchanges exchanges to fill
\* the lists, and the errors of the two subscriptions.
NextSub ==
    \/ SignIn
    \/ Sync
    \/ SessionsSubError
    \/ MessagesSubError
    \/ TypeInput(TxtQuestion)
    \/ HandleSubmit(MaxTitleExchanges)
    \/ \E e \in ExIds : ExchangeStep(e)

SpecSub == Init /\ [][NextSub]_vars

\* ------------------------------------------------------------------ claims
\* the text sub occurs in the text s
Contains(s, sub) ==
    \E i \in 0..(Len(s) - Len(sub)) : SubSeq(s, i + 1, i + Len(sub)) = sub

InFlight(e) == ex[e].pc \in InFlightPcs
Path(e) == <<ex[e].user, ex[e].sid>>

\* exchange e takes a step of getAnalysis
Steps(e) == InFlight(e) /\ ex'[e] # ex[e]

\* C1: whenever a session is current, every message of the displayed list
\* belongs to that session (no message of a previously current session is shown).
C1_NoForeignMessage ==
    currentSessionId # NoId =>
        \A i \in 1..Len(messages) : messages[i].sid = currentSessionId

\* C2: the remote call of an exchange is issued only in the step in which the
\* write of its user turn to its target session succeeds; when that write fails
\* the exchange reports a transient error and goes on to its failure turn, from
\* where it never reaches the remote call.
C2_UserTurnBeforeRemote ==
    [][\A e \in ExIds :
        /\ (ex'[e].pc = "remote" /\ ex[e].pc # "remote") =>
              /\ ex[e].pc = "userWrite"
              /\ messagesDB' = [messagesDB EXCEPT ![Path(e)] =
                    Append(@, Message("user", ex[e].text, ex[e].sid, e))]
        /\ (ex[e].pc = "userWrite" /\ ex'[e] # ex[e] /\ messagesDB' = messagesDB) =>
              /\ ex'[e].pc = "errWrite"
              /\ error' = SorryPrefix \o StoreErrMsg
        /\ (ex[e].pc \in {"errWrite", "done"}) => ex'[e].pc \in {"errWrite", "done"}
      ]_vars

\* C2 witness: a remote call is in flight and the user turn it follows is stored
C2_Witness ==
    \E e \in ExIds :
        /\ ex[e].pc = "remote"
        /\ \E i \in 1..Len(messagesDB[Path(e)]) :
              messagesDB[Path(e)][i] = Message("user", ex[e].text, ex[e].sid, e)

\* C3: no two exchanges are in flight on the same session at the same time.
C3_OneExchangePerSession ==
    \A e1, e2 \in ExIds :
        (e1 # e2 /\ InFlight(e1) /\ InFlight(e2)) => Path(e1) # Path(e2)

\* C4: the loading flag is set whenever some exchange is between the start of
\* its user-turn write and the end of its last branch.
C4_LoadingWhileInFlight ==
    (\E e \in ExIds : InFlight(e)) => isLoading

\* C5: under the assumption that every store write and every remote call
\* eventually returns, every exchange that has set the loading flag eventually
\* ends, and in the state in which it ends the loading flag is false.
C5_LoadingEventuallyCleared ==
    \A e \in 1..MaxExchanges : InFlight(e) ~> (ex[e].pc = "done" /\ ~isLoading)

\* C5 witness: an exchange that wrote its failure turn has ended and the flag is clear
C5_Witness ==
    \E e \in ExIds :
        /\ ex[e].pc = "done"
        /\ ~isLoading
        /\ \E p \in Users \X SessionIds : \E i \in 1..Len(messagesDB[p]) :
              messagesDB[p][i].ex = e /\ Contains(messagesDB[p][i].text, SorryPrefix)

\* C6: when an exchange ends without any failure on a session that held no
\* message before it, the session holds exactly the user turn followed by the
\* assistant turn of that exchange, and its title is not the placeholder.
C6_FirstExchange ==
    [][\A e \in ExIds :
        ( /\ ex[e].pc \in {"botWrite", "title"}
          /\ ex'[e].pc = "done"
          /\ \A i \in 1..Len(messagesDB'[Path(e)]) : messagesDB'[Path(e)][i].ex = e )
        => /\ messagesDB'[Path(e)] =
                << Message("user", ex[e].text, ex[e].sid, e),
                   Message("bot", CleanAnswer, ex[e].sid, e) >>
           /\ sessionsDB'[ex[e].sid].title # NewAnalysis
      ]_vars

\* the detail a failed remote call carries
FailureDetail(outcome) ==
    IF outcome.kind = "transport" THEN <<"Failed to fetch">> ELSE outcome.detail

RemoteFailed(e) == ex[e].errMsg # SorryPrefix \o StoreErrMsg

FailureTurns(e, turns) ==
    { i \in 1..Len(turns) : turns[i] = Message("bot", ex[e].errMsg, ex[e].sid, e) }

UserTurns(e, turns) ==
    { i \in 1..Len(turns) : turns[i] = Message("user", ex[e].text, ex[e].sid, e) }

\* what the catch block does when the remote call fails with outcome o
C7_Caught(e, o) ==
    /\ Contains(error', FailureDetail(o))
    /\ Contains(ex'[e].errMsg, FailureDetail(o))
    /\ ex'[e].pc = "errWrite"
    /\ sessionsDB' = sessionsDB

\* C7 as stated: when the remote call fails with detail D the transient error is
\* set to a text containing D, and when the exchange ends its session contains
\* the user turn and exactly one failure turn containing D, the loading flag is
\* false and the exchange has not written the title.
C7_FailureTurnAlways ==
    [][\A e \in ExIds :
        /\ \A o \in RemoteOutcomes \ {Ok} : RemoteDone(e, o) => C7_Caught(e, o)
        /\ (ex[e].pc = "errWrite" /\ ex'[e].pc = "done" /\ RemoteFailed(e)) =>
              /\ UserTurns(e, messagesDB'[Path(e)]) # {}
              /\ Cardinality(FailureTurns(e, messagesDB'[Path(e)])) = 1
              /\ ~isLoading'
              /\ sessionsDB' = sessionsDB
      ]_vars

\* C7 amended: as C7, but the failure turn is in the session exactly when the
\* write of the failure turn succeeds; when that write fails the session gains
\* no failure turn, and the loading flag is false all the same.
C7_FailureTurnIfWritten ==
    [][\A e \in ExIds :
        /\ \A o \in RemoteOutcomes \ {Ok} : RemoteDone(e, o) => C7_Caught(e, o)
        /\ (ex[e].pc = "errWrite" /\ ex'[e].pc = "done" /\ RemoteFailed(e)) =>
              /\ UserTurns(e, messagesDB'[Path(e)]) # {}
              /\ IF messagesDB' # messagesDB
                 THEN /\ Cardinality(FailureTurns(e, messagesDB'[Path(e)])) = 1
                      /\ \A i \in UserTurns(e, messagesDB'[Path(e)]),
                            j \in FailureTurns(e, messagesDB'[Path(e)]) : i < j
                 ELSE FailureTurns(e, messagesDB'[Path(e)]) = {}
              /\ ~isLoading'
              /\ sessionsDB' = sessionsDB
      ]_vars

\* C7 witness: an exchange whose remote call failed with "rate limited" has ended
\* and its failure turn is stored after its user turn
C7_Witness ==
    \E p \in Users \X SessionIds :
        /\ Len(messagesDB[p]) >= 2
        /\ messagesDB[p][1].sender = "user"
        /\ messagesDB[p][2].sender = "bot"
        /\ messagesDB[p][2].text = SorryPrefix \o <<"rate limited">>
        /\ ex[messagesDB[p][2].ex].pc = "done"
        /\ ~isLoading

\* C8: a submission of an empty or whitespace-only text writes nothing to the
\* store, starts no exchange and leaves the session list, the current session,
\* the message list, the loading flag and the error status unchanged.
C8_BlankSubmitNoOp ==
    [][(HandleSubmit(MaxExchanges) /\ trim(userInput) = <<>>) =>
          UNCHANGED <<sessionsDB, messagesDB, nextId, ex, nEx, sessions,
                      currentSessionId, messages, isLoading, error>>
      ]_vars

\* C8 witness: a whitespace-only text is in the input field and nothing else
\* would reject the submission
C8_Witness ==
    /\ user # NoUser
    /\ userInput # <<>>
    /\ trim(userInput) = <<>>
    /\ ~isLoading
    /\ nEx < MaxExchanges

\* C9: a step of an exchange whose captured scope (identity, session) is no
\* longer the current scope changes neither the error status nor the loading flag.
C9_StaleExchangeIgnored ==
    [][\A e \in ExIds :
        (Steps(e) /\ Path(e) # <<user, currentSessionId>>) =>
            (error' = error /\ isLoading' = isLoading)
      ]_vars

\* C10: every session in the store has a non-empty title.
C10_TitleNeverEmpty ==
    \A sid \in SessionIds : sessionsDB[sid] # NoSession => sessionsDB[sid].title # <<>>

\* C11: once the effects of an identity change have run, nothing of a previous
\* identity is held for the new one: with no identity bound the session list is
\* empty and no session is selected, and otherwise neither the session list nor
\* the selection names a session that belongs to another identity.
C11_NoStaleIdentityState ==
    EffectsSettled =>
        /\ user = NoUser => (sessions = <<>> /\ currentSessionId = NoId)
        /\ \A i \in 1..Len(sessions) :
              ~ \E u \in (Users \cup {NoUser}) \ {user} : DocExists(u, sessions[i].id)
        /\ currentSessionId # NoId =>
              ~ \E u \in Users \ {user} : DocExists(u, currentSessionId)

\* C12: deleteSession of the current session resets the selection and the message
\* view in the step that issues the delete write, before the store has changed;
\* deleteSession of any other session leaves both as they are; and when the
\* delete write fails an error is reported, the store still holds the session
\* and the selection is left as it is (a reset selection is not restored).
C12_DeleteClearsSelection ==
    [][ /\ \A sid \in SessionIds :
              DeleteSession(sid) =>
                  /\ sessionsDB' = sessionsDB
                  /\ IF currentSessionId = sid
                     THEN currentSessionId' = NoId /\ messages' = <<>>
                     ELSE UNCHANGED <<currentSessionId, messages>>
        /\ (pendDel' # pendDel /\ pendDel' \subseteq pendDel /\ faults' # faults) =>
              /\ error' = ErrDelete
              /\ sessionsDB' = sessionsDB
              /\ UNCHANGED <<currentSessionId, messages>>
      ]_vars

\* C12 witness: the delete of the session that was current has failed: the error
\* is reported, the session and its messages are still stored, nothing is selected
C12_Witness ==
    /\ error = ErrDelete
    /\ currentSessionId = NoId
    /\ messages = <<>>
    /\ \E sid \in SessionIds :
          DocExists(user, sid) /\ messagesDB[<<user, sid>>] # <<>>

\* C13: when the store write of createNewSession succeeds, the session it created
\* (title "New Analysis", unpinned, owned by the caller) becomes the current
\* session and the message view is emptied; when the write fails, an error is
\* reported and the selection and the message list are left unchanged.
C13_CreateSelectsNewSession ==
    [][\A u \in Users :
        (pendNew'[u] < pendNew[u]) =>
            \/ /\ sessionsDB' = [sessionsDB EXCEPT ![nextId] =
                     [owner |-> u, title |-> NewAnalysis, isPinned |-> FALSE]]
               /\ sessionsDB[nextId] = NoSession
               /\ currentSessionId' = nextId
               /\ messages' = <<>>
            \/ /\ sessionsDB' = sessionsDB
               /\ error' = ErrCreate
               /\ UNCHANGED <<currentSessionId, messages>>
      ]_vars

\* C13 witness: a session made by createNewSession is current with an empty
\* message view while another session of the same identity holds messages
C13_Witness ==
    /\ currentSessionId # NoId
    /\ DocExists(user, currentSessionId)
    /\ sessionsDB[currentSessionId].title = NewAnalysis
    /\ messagesDB[<<user, currentSessionId>>] = <<>>
    /\ messages = <<>>
    /\ \E sid \in SessionIds : messagesDB[<<user, sid>>] # <<>>

\* C14: the rendered order holds every session of the list once, places every
\* pinned session before every unpinned one, and sorting it again gives the
\* same order.
C14_PinnedFirstAndStable ==
    /\ Len(sortedSessions) = Len(sessions)
    /\ \A i \in 1..Len(sessions) : \E j \in 1..Len(sortedSessions) :
          sortedSessions[j] = sessions[i]
    /\ \A i, j \in 1..Len(sortedSessions) :
          (sortedSessions[i].isPinned /\ ~sortedSessions[j].isPinned) => i < j
    /\ sortSessions(sortedSessions) = sortedSessions

\* C14 witness: the snapshot holds an unpinned session before a pinned one, so
\* the ordering policy changes the order
C14_Witness ==
    /\ Len(sessions) >= 2
    /\ ~sessions[1].isPinned
    /\ sessions[2].isPinned
    /\ sortedSessions # sessions

\* the first sentence segment of a text after lead-word and '?' stripping
Segment(t) ==
    LET cleanInput == trim(t)
        first == firstSegment(cleanInput)
    IN  stripQuestionMarks(stripLeadWord(IF first = <<>> THEN cleanInput ELSE first))

\* exchange e writes a session title in this step, to session sid
WritesTitle(e, sid) ==
    \/ ex[e].pc = "create" /\ ex'[e].pc = "userWrite" /\ sid = nextId
    \/ ex[e].pc = "title" /\ ex'[e].pc = "done" /\ sid = ex[e].sid

C16_RenameWritesTrimmedTitle ==
    [][\A sid \in SessionIds : \A t \in RenameTitles : \A ok \in BOOLEAN :
        HandleRenameSubmit(sid, t, ok) =>
            /\ UNCHANGED <<messagesDB, nextId>>
            /\ IF trim(t) = <<>>
               THEN sessionsDB' = sessionsDB
               ELSE IF ok /\ DocExists(user, sid)
                    THEN sessionsDB' = [sessionsDB EXCEPT ![sid].title = trim(t)]
                    ELSE sessionsDB' = sessionsDB /\ error' = ErrRename
      ]_vars

\* C16 witness: a session renamed with " X " holds the title "X"
C16_Witness ==
    \E sid \in SessionIds :
        /\ sessionsDB[sid] # NoSession
        /\ sessionsDB[sid].title = <<"X">>

\* the session of exchange e holds a turn of another exchange
HadMessages(e) ==
    \E i \in 1..Len(messagesDB[Path(e)]) : messagesDB[Path(e)][i].ex # e

\* C17: when the assistant turn of an exchange has been written, the exchange
\* goes on to rewrite the title of its session if and only if the session was
\* created by this submission or held no turn of an earlier exchange; on a
\* session that already had messages it ends without a title update.
C17_RetitleOnlyFirstExchange ==
    [][\A e \in ExIds :
        (ex[e].pc = "botWrite" /\ ex'[e].pc \in {"title", "done"}) =>
            (ex'[e].pc = "title" <=> (ex[e].isNew \/ ~HadMessages(e)))
      ]_vars

\* C18: the chat_history an exchange sends with its remote call holds only
\* turns of the exchange's own session, and not the user turn the exchange
\* has just written.
C18_HistoryOfOwnSession ==
    [][\A e \in ExIds :
        (ex[e].pc = "userWrite" /\ ex'[e].pc = "remote") =>
            \A i \in 1..Len(ex[e].hist) :
                /\ ex[e].hist[i].sid = ex[e].sid
                /\ ex[e].hist[i] # Message("user", ex[e].text, ex[e].sid, e)
      ]_vars

\* some collection of the store holds a turn written by exchange e
HasTurnOf(e) ==
    \E p \in Users \X SessionIds : \E i \in 1..Len(messagesDB[p]) : messagesDB[p][i].ex = e

\* C19: an exchange submitted with no current session writes no turn before its
\* session-creation write has been answered. When that write succeeds the
\* session exists in the store, owned by the submitting identity, before the
\* user turn is written, and from then on the exchange keeps that session:
\* every turn it writes goes to that session's collection and a title update
\* goes to that session. When the write fails the exchange ends there: an error
\* is reported, and neither the store nor the loading flag changes.
C19_ImplicitSessionFirst ==
    [][\A e \in ExIds :
        /\ (ex[e].pc = "create" \/ ex'[e].pc = "create") => ~HasTurnOf(e)'
        /\ (ex[e].pc = "create" /\ ex'[e].pc # "create") =>
              \/ /\ ex'[e].pc = "userWrite"
                 /\ ex'[e].sid = nextId
                 /\ sessionsDB[nextId] = NoSession
                 /\ sessionsDB'[nextId] # NoSession
                 /\ sessionsDB'[nextId].owner = ex[e].user
                 /\ ex'[e].user = ex[e].user
                 /\ messagesDB' = messagesDB
              \/ /\ ex'[e].pc = "done"
                 /\ error' = ErrCreate
                 /\ UNCHANGED <<sessionsDB, messagesDB, isLoading>>
        /\ (InFlight(e) /\ ex[e].isNew) =>
              /\ InFlight(e)' => (ex'[e].sid = ex[e].sid /\ ex'[e].user = ex[e].user)
              /\ \A p \in Users \X SessionIds : messagesDB'[p] # messagesDB[p] =>
                    (\E f \in ExIds : f # e /\ ex'[f] # ex[f]) \/ p = Path(e)
              /\ \A sid \in SessionIds : sessionsDB'[sid] # sessionsDB[sid] =>
                    (\E f \in ExIds : f # e /\ ex'[f] # ex[f]) \/ ex'[e] = ex[e] \/ sid = ex[e].sid
      ]_vars

\* C19 witness: an exchange submitted with no current session is waiting for its
\* remote call, and its user turn is the first turn of the session made for it
C19_Witness ==
    \E e \in ExIds :
        /\ ex[e].pc = "remote"
        /\ ex[e].isNew
        /\ DocExists(ex[e].user, ex[e].sid)
        /\ messagesDB[Path(e)] = << Message("user", ex[e].text, ex[e].sid, e) >>

\* C20: a failure turn is written only by an exchange whose remote call failed:
\* the step that stores a failure turn belongs to an exchange whose caught
\* failure is that of the remote call, never that of a store write.
C20_FailureTurnOnlyAfterRemoteFailure ==
    [][\A e \in ExIds :
        (ex[e].pc = "errWrite" /\ ex'[e].pc = "done" /\ messagesDB' # messagesDB) =>
            RemoteFailed(e)
      ]_vars

\* how far an exchange has come: each write and the remote call has one place
Rank(pc) ==
    CASE pc = "idle" -> 0
      [] pc = "create" -> 1
      [] pc = "userWrite" -> 2
      [] pc = "remote" -> 3
      [] pc = "botWrite" -> 4
      [] pc = "title" -> 5
      [] pc = "errWrite" -> 6
      [] pc = "done" -> 7

\* C21: nothing is retried. Every answer of the store or of the remote service,
\* accepted or rejected, moves the exchange forward, so the user-turn write, the
\* remote call, the assistant-turn write and the failure-turn write are each
\* issued at most once and an exchange that has ended never acts again; a
\* rejected answer is never left with the same exchange waiting at the same
\* place; and when the failure-turn write is rejected the exchange ends with
\* the loading flag cleared and the store unchanged.
C21_NothingRetried ==
    [][ /\ \A e \in ExIds :
              /\ ex'[e] # ex[e] => Rank(ex'[e].pc) > Rank(ex[e].pc)
              /\ (ex[e].pc = "errWrite" /\ ex'[e] # ex[e] /\ faults' # faults) =>
                    /\ ex'[e].pc = "done"
                    /\ ~isLoading'
                    /\ UNCHANGED <<sessionsDB, messagesDB>>
        /\ faults' # faults =>
              \/ \E e \in ExIds : ex'[e] # ex[e]
              \/ pendNew' # pendNew
      ]_vars

\* C21 witness: an exchange has ended and its session holds its user turn and
\* nothing else: the failure-turn write that followed the failure was rejected
C21_Witness ==
    \E e \in ExIds : \E p \in Users \X SessionIds :
        /\ ex[e].pc = "done"
        /\ ~isLoading
        /\ messagesDB[p] = << Message("user", TxtQuestion, p[2], e) >>

\* C22: a handleTogglePin whose write is accepted leaves the stored pinned flag
\* of its session the negation of what the store held before the write.
C22_ToggleFlipsStoredFlag ==
    [][\A i \in 1..MaxSessions :
        (HandleTogglePin(i, TRUE) /\ DocExists(user, sortedSessions[i].id)) =>
            sessionsDB'[sortedSessions[i].id].isPinned =
                ~sessionsDB[sortedSessions[i].id].isPinned
      ]_vars

\* C23: an error of the sessions subscription or of the messages subscription
\* sets the transient error status to its message and leaves the session list
\* and the message list as they were.
C23_SubscriptionErrorKeepsLists ==
    [][ /\ SessionsSubError =>
              (error' = ErrLoadSessions /\ UNCHANGED <<sessions, messages>>)
        /\ MessagesSubError =>
              (error' = ErrLoadMessages /\ UNCHANGED <<sessions, messages>>)
      ]_vars

\* C23 witness: the messages subscription has failed and the session list and
\* the message list still show what the last snapshots delivered
C23_Witness ==
    /\ error = ErrLoadMessages
    /\ sessions # <<>>
    /\ messages # <<>>

====
